---- MODULE Spec2Model ----
(***************************************************************************)
(* Model of the disk space optimizer CLI (src/src/main.rs).                *)
(*                                                                         *)
(* Text is modelled as a sequence of one-character strings; fixed tokens   *)
(* of a command line ("dnf", "remove", ...) are one-element sequences.     *)
(* Everything outside the process (the user's key presses and typed lines, *)
(* the exit status and output of every child process) is drawn from small  *)
(* sets when the code reaches the point where it is consumed.              *)
(***************************************************************************)
EXTENDS Integers, Sequences, FiniteSets, TLC

VARIABLES
    cli_command,    \* main: cli.command (None or Some(Commands))
    pc,             \* main: position in main()
    checked,        \* top-level MultiSelect: the check boxes
    toggles,        \* history: menu indices in the order the user toggled them
    selections,     \* main: items returned by run_dialoguer
    idx,            \* main: position of the for loop in selections
    ret,            \* main: value returned by main()
    printed,        \* main: the "Error: ..." lines printed by the loop
    executed,       \* history: one entry per finished call of execute
    command,        \* execute: self
    epc,            \* execute: position in execute()
    lhs_to_pipe,    \* execute: stdout of `dnf list --installed`
    pkgs_installed, \* execute: items of the package menu
    pkgs_selected,  \* execute: chosen package names
    pkgs,           \* execute: Result built from pkgs_selected
    resp,           \* execute: the confirmation line
    kernels,        \* execute: items of the kernel menu
    selected_kernels, \* execute: chosen kernel names
    line,           \* execute: the line returned by read_line()
    k,              \* execute: position of the `for pkg in &pkgs` loop
    invoked,        \* execute: child processes started by this call, in order
    result,         \* execute: the returned Result
    kernel,         \* execute: Result holding the joined kernel names
    key,            \* from_selection alone: the key handed to it
    mapped,         \* from_selection alone: the Option<Commands> it returned
    output          \* execute_cmd alone: what the child process did

mainVars == <<cli_command, pc, checked, toggles, selections, idx, ret, printed, executed>>
frameVars == <<command, epc, lhs_to_pipe, pkgs_installed, pkgs_selected, pkgs, resp,
               kernels, selected_kernels, kernel, line, k, invoked, result>>
keyVars == <<key, mapped, output>>
vars == <<cli_command, pc, checked, toggles, selections, idx, ret, printed, executed,
          command, epc, lhs_to_pipe, pkgs_installed, pkgs_selected, pkgs, resp,
          kernels, selected_kernels, kernel, line, k, invoked, result, key, mapped, output>>

----------------------------------------------------------------------------
(* Bounds of the model. *)

\* Number of times the user presses space in the top-level menu.
MaxToggles == 2
\* Keys -MinusKeys .. MaxKey are tried on from_selection.
MaxKey == 100
MinusKeys == 3

----------------------------------------------------------------------------
(* Text helpers: str::trim, str::split, [&str]::join, parse::<u32>, format!. *)

WS == {" ", "\n", "\t"}

RECURSIVE TrimStart(_)
TrimStart(s) ==
    IF s # <<>> /\ Head(s) \in WS THEN TrimStart(Tail(s)) ELSE s

RECURSIVE TrimEnd(_)
TrimEnd(s) ==
    IF s # <<>> /\ s[Len(s)] \in WS THEN TrimEnd(SubSeq(s, 1, Len(s) - 1)) ELSE s

\* str::trim
Trim(s) == TrimEnd(TrimStart(s))

\* str::split(sep): the pieces between separators; "" splits into [""].
RECURSIVE Split(_, _)
Split(s, sep) ==
    IF \E i \in 1..Len(s) : s[i] = sep
    THEN LET i == CHOOSE i \in 1..Len(s) : s[i] = sep /\ \A j \in 1..(i - 1) : s[j] # sep
         IN  <<SubSeq(s, 1, i - 1)>> \o Split(SubSeq(s, i + 1, Len(s)), sep)
    ELSE <<s>>

\* [&str]::join(" ")
RECURSIVE Join(_, _)
Join(ss, sep) ==
    IF ss = <<>> THEN <<>>
    ELSE IF Len(ss) = 1 THEN ss[1]
    ELSE ss[1] \o <<sep>> \o Join(Tail(ss), sep)

\* Vec::contains
Contains(ss, x) == \E i \in 1..Len(ss) : ss[i] = x

Digits == <<"0", "1", "2", "3", "4", "5", "6", "7", "8", "9">>
IsDigit(c) == \E d \in 1..10 : Digits[d] = c
DigitVal(c) == (CHOOSE d \in 1..10 : Digits[d] = c) - 1

\* u32::MAX = 4294967295 does not fit a TLC integer; it is kept as
\* its decimal digits and compared digit by digit.
U32MaxDigits == <<4, 2, 9, 4, 9, 6, 7, 2, 9, 5>>

RECURSIVE StripZeros(_)
StripZeros(ds) ==
    IF Len(ds) > 1 /\ Head(ds) = 0 THEN StripZeros(Tail(ds)) ELSE ds

RECURSIVE LexLeq(_, _)
LexLeq(a, b) ==
    IF a = <<>> THEN TRUE
    ELSE IF Head(a) # Head(b) THEN Head(a) < Head(b)
    ELSE LexLeq(Tail(a), Tail(b))

FitsU32(ds) ==
    \/ Len(ds) < Len(U32MaxDigits)
    \/ Len(ds) = Len(U32MaxDigits) /\ LexLeq(ds, U32MaxDigits)

\* str::parse::<u32>: an optional "+", then one or more digits, value at most
\* u32::MAX. The value is returned as its digits without leading zeros.
ParseU32(s) ==
    LET body == IF s # <<>> /\ Head(s) = "+" THEN Tail(s) ELSE s
        ds == StripZeros([i \in 1..Len(body) |-> DigitVal(body[i])])
    IN  IF body # <<>> /\ (\A i \in 1..Len(body) : IsDigit(body[i])) /\ FitsU32(ds)
        THEN [ok |-> TRUE, digits |-> ds]
        ELSE [ok |-> FALSE, digits |-> <<>>]

\* Display of a u32: its decimal digits.
FormatU32(ds) == [i \in 1..Len(ds) |-> Digits[ds[i] + 1]]

\* Variant of UnwrapOr7 that falls back to zero days.
UnwrapOr0(p) == IF p.ok THEN p.digits ELSE <<0>>

\* .unwrap_or(7)
UnwrapOr7(p) == IF p.ok THEN p.digits ELSE <<7>>

----------------------------------------------------------------------------
(* Results, commands, the menu registry. *)

\* anyhow::Result: Ok(val) or Err(err); code and msg are the exit status and
\* the trimmed stderr carried by the "Command failed" error.
Ok(v) == [ok |-> TRUE, val |-> v, err |-> "", code |-> 0, msg |-> <<>>]
Err(e) == [ok |-> FALSE, val |-> <<>>, err |-> e, code |-> 0, msg |-> <<>>]
ErrCommandFailed(c, m) == [ok |-> FALSE, val |-> <<>>, err |-> "CommandFailed", code |-> c, msg |-> m]
Pending == [ok |-> FALSE, val |-> <<>>, err |-> "(pending)", code |-> 0, msg |-> <<>>]

\* enum Commands, and Option::None for an absent command.
Cmd(v, n) == [variant |-> v, package_name |-> n]
RemovePackage(n) == Cmd("RemovePackage", n)
CleanPackageCache == Cmd("CleanPackageCache", <<>>)
UninstallUnusedApps == Cmd("UninstallUnusedApps", <<>>)
RemoveOldKernels == Cmd("RemoveOldKernels", <<>>)
CleanUpLogFiles == Cmd("CleanUpLogFiles", <<>>)
None == Cmd("None", <<>>)

\* SelectableItem::new
SelectableItem(key_, text_) == [key |-> key_, text |-> text_]

\* DiskSpaceOptimizerItems::new().with_option(...)...: the menu, in insertion order.
with_option(options, option) == Append(options, option)

get_commands ==
    with_option(with_option(with_option(with_option(with_option(with_option(<<>>,
        SelectableItem(1, "Remove unnecessary packages")),
        SelectableItem(2, "Clean package cache")),
        SelectableItem(3, "Uninstall unused applications")),
        SelectableItem(4, "Remove old kernel versions")),
        SelectableItem(5, "Clean up log files")),
        SelectableItem(0, "Exit"))

\* `selection.key as usize`: a non-negative i32 keeps its value, a negative one
\* wraps to the top of the unsigned range. TLC integers are 32 bits wide, so
\* the wrap is taken modulo 2^31 instead of 2^64.
AsUsize(i) == IF i >= 0 THEN i ELSE (i + 2147483647) + 1

\* Variant of from_selection that counts the menu entries from zero.
from_selection_zero_based(selection) ==
    CASE selection = 0 -> RemovePackage(<<>>)
      [] selection = 1 -> CleanPackageCache
      [] selection = 2 -> UninstallUnusedApps
      [] selection = 3 -> RemoveOldKernels
      [] selection = 4 -> CleanUpLogFiles
      [] OTHER -> None

\* Commands::from_selection
from_selection(selection) ==
    CASE selection = 1 -> RemovePackage(<<>>)
      [] selection = 2 -> CleanPackageCache
      [] selection = 3 -> UninstallUnusedApps
      [] selection = 4 -> RemoveOldKernels
      [] selection = 5 -> CleanUpLogFiles
      [] OTHER -> None

\* Variant of Defaults that pre-checks the first entry instead of the last.
DefaultsFirst(options) == [i \in 1..Len(options) |-> i = 1]

\* run_dialoguer: the defaults handed to the prompt, all false but the last.
Defaults(options) == [i \in 1..Len(options) |-> i = Len(options)]

\* MultiSelect::interact on confirmation: the indices of the checked boxes,
\* collected by one pass over the boxes from first to last.
RECURSIVE InteractFrom(_, _)
InteractFrom(boxes, i) ==
    IF i > Len(boxes) THEN <<>>
    ELSE (IF boxes[i] THEN <<i>> ELSE <<>>) \o InteractFrom(boxes, i + 1)

Interact(boxes) == InteractFrom(boxes, 1)

\* Variant of run_dialoguer that returns the checked items last to first.
run_dialoguer_reversed(options, boxes) ==
    LET sel == Interact(boxes)
    IN  [j \in 1..Len(sel) |-> options[sel[Len(sel) + 1 - j]]]

\* run_dialoguer: `selections.into_iter().map(|i| &items.options[i]).collect()`
run_dialoguer(options, boxes) ==
    LET sel == Interact(boxes) IN [j \in 1..Len(sel) |-> options[sel[j]]]

\* The second and third prompts: `.map(|value| pkgs_installed[value]).collect()`
SelectNames(names, boxes) ==
    LET sel == Interact(boxes) IN [j \in 1..Len(sel) |-> names[sel[j]]]

----------------------------------------------------------------------------
(* Child processes. *)

\* What a child process did: it could not be started, or it exited with a
\* status and left text on stdout and stderr.
Outcome(sp, c, out, errt) == [spawned |-> sp, code |-> c, stdout |-> out, stderr |-> errt]
NoSpawn == Outcome(FALSE, 0, <<>>, <<>>)

\* One started (or attempted) child process.
Invocation(c, a, in, o) == [cmd |-> c, args |-> a, stdin |-> in, spawned |-> o.spawned, code |-> o.code]

\* Variant of execute_cmd that does not look at the exit status.
execute_cmd_any_status(o) ==
    IF ~o.spawned THEN Err("SpawnFailed")
    ELSE Ok(Trim(o.stdout))

\* execute_cmd
execute_cmd(o) ==
    IF ~o.spawned THEN Err("SpawnFailed")
    ELSE IF o.code = 0 THEN Ok(Trim(o.stdout))
    ELSE ErrCommandFailed(o.code, Trim(o.stderr))

\* awk '{print $1}': the first blank-separated field of every input line.
Records(text) ==
    LET p == Split(text, "\n")
    IN  IF p[Len(p)] = <<>> THEN SubSeq(p, 1, Len(p) - 1) ELSE p

RECURSIVE UntilBlank(_)
UntilBlank(s) ==
    IF s = <<>> \/ Head(s) \in WS THEN <<>> ELSE <<Head(s)>> \o UntilBlank(Tail(s))

FirstField(rec) == UntilBlank(TrimStart(rec))

RECURSIVE PrintFirstFields(_)
PrintFirstFields(recs) ==
    IF recs = <<>> THEN <<>>
    ELSE FirstField(Head(recs)) \o <<"\n">> \o PrintFirstFields(Tail(recs))

AwkPrint1(text) == PrintFirstFields(Records(text))

\* `text.trim().split('\n').collect()` followed by `.push("None")`
SentinelNone == <<"N", "o", "n", "e">>
MenuOf(text) == Append(Split(Trim(text), "\n"), SentinelNone)

----------------------------------------------------------------------------
(* The environment: what the user types and what the child processes do. *)

\* Texts a user may type at a line prompt (read_line keeps the newline; the
\* empty text is end of input).
TypedLines ==
    { <<"y", "\n">>, <<"n", "\n">>, <<"y", "e", "s", "\n">>, <<"\n">>, <<>>,
      <<" ", "y", " ", "\n">>, <<"m", "a", "y", "b", "e", "\n">>,
      <<"a", "\n">>, <<" ", "b", "\n">>,
      <<"7", "\n">>, <<"a", "b", "c", "\n">>, <<"-", "1", "\n">>, <<"+", "7", "\n">>,
      <<" ", "3", "0", " ", "\n">>, <<"0", "0", "7", "\n">>,
      <<"4", "2", "9", "4", "9", "6", "7", "2", "9", "6", "\n">> }

\* Package names given on the command line (`remove-package <name>`).
GivenNames == { <<>>, <<"a">>, <<"b", " ">> }

\* Commands the command line can name.
DirectCommands ==
    { RemovePackage(n) : n \in GivenNames }
    \cup { CleanPackageCache, UninstallUnusedApps, RemoveOldKernels, CleanUpLogFiles }

\* Outcomes of a command run through execute_cmd.
ExecOutcomes ==
    { Outcome(TRUE, 0, <<" ", "o", "k", "\n">>, <<>>),
      Outcome(TRUE, 1, <<>>, <<"n", "o", " ", "\n">>),
      NoSpawn }

\* Outcomes of `dnf list --installed`.
DnfListOutcomes ==
    { Outcome(TRUE, 0, <<"a", " ", "1", "\n">>, <<>>),
      Outcome(TRUE, 0, <<"a", " ", "1", "\n", "b", " ", "2", "\n">>, <<>>),
      Outcome(TRUE, 1, <<>>, <<"n", "o", "\n">>),
      NoSpawn }

\* Outcomes of `rpm -q kernel`.
RpmOutcomes ==
    { Outcome(TRUE, 0, <<"k", "\n">>, <<>>),
      Outcome(TRUE, 0, <<"k", "\n", "m", "\n">>, <<>>),
      Outcome(TRUE, 1, <<"n", "o", "\n">>, <<>>),
      NoSpawn }

\* Outcomes of a child whose stdout is not given here (awk, dnf info, xsel):
\* "wait" is a failure of wait_with_output.
\* code -1 stands for a failure of wait_with_output (no exit status).
PlainOutcomes == { Outcome(TRUE, 0, <<>>, <<>>), Outcome(TRUE, 1, <<>>, <<>>), NoSpawn }
WaitFailed == Outcome(TRUE, -1, <<>>, <<>>)
PipedOutcomes == PlainOutcomes \cup { WaitFailed }

Tok(s) == <<s>>

----------------------------------------------------------------------------
(* Initial state. *)

Unmapped == Cmd("(unset)", <<>>)

FrameInit ==
    /\ command = None
    /\ epc = "idle"
    /\ lhs_to_pipe = <<>>
    /\ pkgs_installed = <<>>
    /\ pkgs_selected = <<>>
    /\ pkgs = Pending
    /\ resp = <<>>
    /\ kernels = <<>>
    /\ selected_kernels = <<>>
    /\ kernel = Pending
    /\ line = <<>>
    /\ k = 0
    /\ invoked = <<>>
    /\ result = Pending

MainInit ==
    /\ cli_command = None
    /\ checked = <<>>
    /\ toggles = <<>>
    /\ selections = <<>>
    /\ idx = 0
    /\ ret = Pending
    /\ printed = <<>>
    /\ executed = <<>>

Init ==
    /\ pc = "parse"
    /\ MainInit
    /\ FrameInit
    /\ key = 0
    /\ mapped = Unmapped
    /\ output = NoSpawn

----------------------------------------------------------------------------
(* main() *)

\* Variant of CliParse that opens the menu whether or not a command was given.
CliParseAlwaysMenu ==
    /\ pc = "parse"
    /\ \E c \in DirectCommands \cup {None} :
        /\ cli_command' = c
        /\ pc' = "menu"
        /\ checked' = Defaults(get_commands)
    /\ UNCHANGED <<toggles, selections, idx, ret, printed, executed>>
    /\ UNCHANGED frameVars
    /\ UNCHANGED keyVars

\* Cli::parse() succeeds: `match &cli.command`; without a command the menu is
\* built and run_dialoguer prepares the defaults of the prompt.
CliParse ==
    /\ pc = "parse"
    /\ \E c \in DirectCommands \cup {None} :
        /\ cli_command' = c
        /\ IF c = None
           THEN pc' = "menu" /\ checked' = Defaults(get_commands)
           ELSE pc' = "match" /\ checked' = checked
    /\ UNCHANGED <<toggles, selections, idx, ret, printed, executed>>
    /\ UNCHANGED frameVars
    /\ UNCHANGED keyVars

\* Cli::parse() rejects the arguments: clap prints the usage and exits the
\* process; main never returns.
CliParseFail ==
    /\ pc = "parse"
    /\ pc' = "exited"
    /\ ret' = Err("ProcessExit")
    /\ UNCHANGED <<cli_command, checked, toggles, selections, idx, printed, executed>>
    /\ UNCHANGED frameVars
    /\ UNCHANGED keyVars

\* The user presses space on entry i of the top-level menu.
MenuToggle(i) ==
    /\ pc = "menu"
    /\ Len(toggles) < MaxToggles
    /\ checked' = [checked EXCEPT ![i] = ~checked[i]]
    /\ toggles' = Append(toggles, i)
    /\ UNCHANGED <<cli_command, pc, selections, idx, ret, printed, executed>>
    /\ UNCHANGED frameVars
    /\ UNCHANGED keyVars

\* Variant of MenuConfirm that treats an empty selection as a failed prompt.
MenuConfirmRejectsEmpty ==
    /\ pc = "menu"
    /\ selections' = run_dialoguer(get_commands, checked)
    /\ idx' = 1
    /\ IF selections' = <<>>
       THEN pc' = "done" /\ ret' = Err("InteractionError")
       ELSE pc' = "loop" /\ ret' = ret
    /\ UNCHANGED <<cli_command, checked, toggles, printed, executed>>
    /\ UNCHANGED frameVars
    /\ UNCHANGED keyVars

\* The user presses enter: run_dialoguer returns the checked items.
MenuConfirm ==
    /\ pc = "menu"
    /\ selections' = run_dialoguer(get_commands, checked)
    /\ idx' = 1
    /\ pc' = "loop"
    /\ UNCHANGED <<cli_command, checked, toggles, ret, printed, executed>>
    /\ UNCHANGED frameVars
    /\ UNCHANGED keyVars

\* `.interact()?` fails (no terminal): run_dialoguer returns the error and
\* main returns it.
MenuFail ==
    /\ pc = "menu"
    /\ ret' = Err("InteractionError")
    /\ pc' = "done"
    /\ UNCHANGED <<cli_command, checked, toggles, selections, idx, printed, executed>>
    /\ UNCHANGED frameVars
    /\ UNCHANGED keyVars

\* Where execute starts for a command: the arm of its `match self`.
Entry(c) ==
    CASE c.variant = "RemovePackage" /\ c.package_name = <<>> -> "rp_list"
      [] c.variant = "RemovePackage" /\ c.package_name # <<>> -> "rp_read"
      [] c.variant = "CleanPackageCache" -> "cpc_exec"
      [] c.variant = "UninstallUnusedApps" -> "uua_exec"
      [] c.variant = "RemoveOldKernels" -> "rok_list"
      [] c.variant = "CleanUpLogFiles" -> "culf_read"

\* A call of command.execute(): a fresh frame.
Call(c) ==
    /\ command' = c
    /\ epc' = Entry(c)
    /\ lhs_to_pipe' = <<>>
    /\ pkgs_installed' = <<>>
    /\ pkgs_selected' = <<>>
    /\ pkgs' = Pending
    /\ resp' = <<>>
    /\ kernels' = <<>>
    /\ selected_kernels' = <<>>
    /\ kernel' = Pending
    /\ line' = <<>>
    /\ k' = 0
    /\ invoked' = <<>>
    /\ result' = Pending

\* The entry the history keeps of a finished call; at is the position of the
\* selection in the loop, 0 for a command given on the command line.
Finished(at) == [command |-> command, result |-> result, invoked |-> invoked, at |-> at]

\* `Some(command) => command.execute()?` : the call.
MainDirect ==
    /\ pc = "match"
    /\ cli_command # None
    /\ Call(cli_command)
    /\ pc' = "direct"
    /\ UNCHANGED <<cli_command, checked, toggles, selections, idx, ret, printed, executed>>
    /\ UNCHANGED keyVars

\* Variant of MainDirectReturn that drops the Result of execute.
MainDirectReturnSwallow ==
    /\ pc = "direct"
    /\ epc = "returned"
    /\ executed' = Append(executed, Finished(0))
    /\ ret' = Ok(<<>>)
    /\ pc' = "done"
    /\ epc' = "idle"
    /\ UNCHANGED <<cli_command, checked, toggles, selections, idx, printed>>
    /\ UNCHANGED <<command, lhs_to_pipe, pkgs_installed, pkgs_selected, pkgs, resp,
                   kernels, selected_kernels, kernel, line, k, invoked, result>>
    /\ UNCHANGED keyVars

\* `Some(command) => command.execute()?` : the `?` returns an error from main,
\* otherwise main reaches `Ok(())`.
MainDirectReturn ==
    /\ pc = "direct"
    /\ epc = "returned"
    /\ executed' = Append(executed, Finished(0))
    /\ ret' = IF result.ok THEN Ok(<<>>) ELSE result
    /\ pc' = "done"
    /\ epc' = "idle"
    /\ UNCHANGED <<cli_command, checked, toggles, selections, idx, printed>>
    /\ UNCHANGED <<command, lhs_to_pipe, pkgs_installed, pkgs_selected, pkgs, resp,
                   kernels, selected_kernels, kernel, line, k, invoked, result>>
    /\ UNCHANGED keyVars

\* Loop body, `if let Some(command) = from_selection(selection.key as usize)`:
\* the call of execute.
LoopCall ==
    /\ pc = "loop"
    /\ idx <= Len(selections)
    /\ from_selection(AsUsize(selections[idx].key)) # None
    /\ Call(from_selection(AsUsize(selections[idx].key)))
    /\ pc' = "loop_exec"
    /\ UNCHANGED <<cli_command, checked, toggles, selections, idx, ret, printed, executed>>
    /\ UNCHANGED keyVars

\* Loop body when from_selection returns None: nothing happens.
LoopSkip ==
    /\ pc = "loop"
    /\ idx <= Len(selections)
    /\ from_selection(AsUsize(selections[idx].key)) = None
    /\ idx' = idx + 1
    /\ UNCHANGED <<cli_command, pc, checked, toggles, selections, ret, printed, executed>>
    /\ UNCHANGED frameVars
    /\ UNCHANGED keyVars

\* Variant of LoopReturn that leaves the loop at the first error.
LoopReturnBreaks ==
    /\ pc = "loop_exec"
    /\ epc = "returned"
    /\ executed' = Append(executed, Finished(idx))
    /\ printed' = IF result.ok THEN printed ELSE Append(printed, result.err)
    /\ idx' = idx + 1
    /\ IF result.ok THEN pc' = "loop" /\ ret' = ret ELSE pc' = "done" /\ ret' = Ok(<<>>)
    /\ epc' = "idle"
    /\ UNCHANGED <<cli_command, checked, toggles, selections>>
    /\ UNCHANGED <<command, lhs_to_pipe, pkgs_installed, pkgs_selected, pkgs, resp,
                   kernels, selected_kernels, kernel, line, k, invoked, result>>
    /\ UNCHANGED keyVars

\* Loop body, `if let Err(err) = command.execute() { println!("Error: ...") }`.
LoopReturn ==
    /\ pc = "loop_exec"
    /\ epc = "returned"
    /\ executed' = Append(executed, Finished(idx))
    /\ printed' = IF result.ok THEN printed ELSE Append(printed, result.err)
    /\ idx' = idx + 1
    /\ pc' = "loop"
    /\ epc' = "idle"
    /\ UNCHANGED <<cli_command, checked, toggles, selections, ret>>
    /\ UNCHANGED <<command, lhs_to_pipe, pkgs_installed, pkgs_selected, pkgs, resp,
                   kernels, selected_kernels, kernel, line, k, invoked, result>>
    /\ UNCHANGED keyVars

\* The loop is over: main returns Ok(()).
LoopEnd ==
    /\ pc = "loop"
    /\ idx > Len(selections)
    /\ ret' = Ok(<<>>)
    /\ pc' = "done"
    /\ UNCHANGED <<cli_command, checked, toggles, selections, idx, printed, executed>>
    /\ UNCHANGED frameVars
    /\ UNCHANGED keyVars

----------------------------------------------------------------------------
(* Commands::execute *)

\* `return Err(..)`, a failing `?`, or the final `Ok(())`.
Return(r) == epc' = "returned" /\ result' = r

\* `x?` on the Result of execute_cmd, then falling through to `Ok(())`.
Question(r) == IF r.ok THEN Ok(<<>>) ELSE r

\* The `let pkgs = if ... else ...` of RemovePackage.
PkgsResult(sel) ==
    IF sel = <<>> THEN Err("NoSelection")
    ELSE IF Contains(sel, SentinelNone) THEN Err("NoSelection")
    ELSE Ok(sel)

\* Variant of KernelsResult that joins the names with commas.
KernelsResultCommas(sel) ==
    IF sel = <<>> THEN Err("NoSelection")
    ELSE IF Contains(sel, SentinelNone) THEN Err("NoSelection")
    ELSE Ok(Join(sel, ","))

\* The `let kernels = if ... else ...` of RemoveOldKernels.
KernelsResult(sel) ==
    IF sel = <<>> THEN Err("NoSelection")
    ELSE IF Contains(sel, SentinelNone) THEN Err("NoSelection")
    ELSE Ok(Join(sel, " "))

\* RemoveOldKernels: `args.join(" ")` of ["sudo", "dnf", "remove", kernel].
the_string(joined) == Join(<<Tok("sudo"), Tok("dnf"), Tok("remove"), joined>>, " ")

\* CleanUpLogFiles: format!("--vacuum-time={days}d") of the parsed line.
vacuum_time(typed) ==
    Tok("--vacuum-time=") \o FormatU32(UnwrapOr7(ParseU32(Trim(typed)))) \o Tok("d")

\* RemovePackage without a name: `dnf list --installed`; the exit status is
\* not looked at.
RpList ==
    /\ epc = "rp_list"
    /\ \E o \in DnfListOutcomes :
        /\ invoked' = Append(invoked, Invocation("dnf", <<Tok("list"), Tok("--installed")>>, <<>>, o))
        /\ IF ~o.spawned
           THEN Return(Err("SpawnFailed")) /\ lhs_to_pipe' = lhs_to_pipe
           ELSE epc' = "rp_awk" /\ lhs_to_pipe' = o.stdout /\ result' = result
    /\ UNCHANGED <<command, pkgs_installed, pkgs_selected, pkgs, resp, kernels,
                   selected_kernels, kernel, line, k>>
    /\ UNCHANGED mainVars
    /\ UNCHANGED keyVars

\* RemovePackage without a name: the listing is piped through awk and split
\* into the menu of packages, with "None" appended.
RpAwk ==
    /\ epc = "rp_awk"
    /\ \E o \in PipedOutcomes :
        /\ invoked' = Append(invoked, Invocation("awk", <<Tok("{print $1}")>>, lhs_to_pipe, o))
        /\ IF ~o.spawned
           THEN Return(Err("SpawnFailed")) /\ pkgs_installed' = pkgs_installed
           ELSE IF o = WaitFailed
           THEN Return(Err("IoError")) /\ pkgs_installed' = pkgs_installed
           ELSE /\ epc' = "rp_select"
                /\ result' = result
                /\ pkgs_installed' = MenuOf(IF o.code = 0 THEN AwkPrint1(lhs_to_pipe) ELSE <<>>)
    /\ UNCHANGED <<command, lhs_to_pipe, pkgs_selected, pkgs, resp, kernels,
                   selected_kernels, kernel, line, k>>
    /\ UNCHANGED mainVars
    /\ UNCHANGED keyVars

\* RemovePackage without a name: the package prompt. An Err in pkgs skips the
\* `if let Ok(pkgs)` block and execute ends with the final `Ok(())`.
RpSelect ==
    /\ epc = "rp_select"
    /\ \/ /\ Return(Err("InteractionError"))
          /\ UNCHANGED <<pkgs_selected, pkgs>>
       \/ \E boxes \in [1..Len(pkgs_installed) -> BOOLEAN] :
            /\ pkgs_selected' = SelectNames(pkgs_installed, boxes)
            /\ pkgs' = PkgsResult(pkgs_selected')
            /\ IF pkgs'.ok
               THEN epc' = "rp_confirm" /\ result' = result
               ELSE Return(Ok(<<>>))
    /\ UNCHANGED <<command, lhs_to_pipe, pkgs_installed, resp, kernels,
                   selected_kernels, kernel, line, k, invoked>>
    /\ UNCHANGED mainVars
    /\ UNCHANGED keyVars

\* Variant of RpConfirm that takes every line but "n" for a yes.
RpConfirmLax ==
    /\ epc = "rp_confirm"
    /\ \/ /\ Return(Err("IoError"))
          /\ UNCHANGED <<resp, k>>
       \/ \E typed \in TypedLines :
            /\ resp' = typed
            /\ IF Trim(typed) = Tok("n")
               THEN Return(Err("Aborted")) /\ k' = k
               ELSE epc' = "rp_remove" /\ k' = 1 /\ result' = result
    /\ UNCHANGED <<command, lhs_to_pipe, pkgs_installed, pkgs_selected, pkgs, kernels,
                   selected_kernels, kernel, line, invoked>>
    /\ UNCHANGED mainVars
    /\ UNCHANGED keyVars

\* RemovePackage without a name: the "(y/N)" line.
RpConfirm ==
    /\ epc = "rp_confirm"
    /\ \/ /\ Return(Err("IoError"))
          /\ UNCHANGED <<resp, k>>
       \/ \E typed \in TypedLines :
            /\ resp' = typed
            /\ IF Trim(typed) # Tok("y") /\ Trim(typed) # Tok("n")
               THEN Return(Err("InvalidResponse")) /\ k' = k
               ELSE IF ~(Trim(typed) = Tok("y"))
               THEN Return(Err("Aborted")) /\ k' = k
               ELSE epc' = "rp_remove" /\ k' = 1 /\ result' = result
    /\ UNCHANGED <<command, lhs_to_pipe, pkgs_installed, pkgs_selected, pkgs, kernels,
                   selected_kernels, kernel, line, invoked>>
    /\ UNCHANGED mainVars
    /\ UNCHANGED keyVars

\* The arguments of the child started for one selected package.
PerPackageArgs(pkg) == <<Tok("dnf"), Tok("info"), Trim(pkg)>>

\* RemovePackage without a name: one round of `for pkg in &pkgs`; a non-zero
\* exit is printed and the loop goes on.
RpRemove ==
    /\ epc = "rp_remove"
    /\ k <= Len(pkgs.val)
    /\ \E o \in PlainOutcomes :
        /\ invoked' = Append(invoked, Invocation("sudo", PerPackageArgs(pkgs.val[k]), <<>>, o))
        /\ IF ~o.spawned
           THEN Return(Err("SpawnFailed")) /\ k' = k
           ELSE IF k = Len(pkgs.val)
           THEN Return(Ok(<<>>)) /\ k' = k + 1
           ELSE epc' = epc /\ result' = result /\ k' = k + 1
    /\ UNCHANGED <<command, lhs_to_pipe, pkgs_installed, pkgs_selected, pkgs, resp, kernels,
                   selected_kernels, kernel, line>>
    /\ UNCHANGED mainVars
    /\ UNCHANGED keyVars

\* read_line()? of RemovePackage with a name and of CleanUpLogFiles.
ReadLine(here, next) ==
    /\ epc = here
    /\ \/ Return(Err("IoError")) /\ line' = line
       \/ \E typed \in TypedLines :
            line' = typed /\ epc' = next /\ result' = result
    /\ UNCHANGED <<command, lhs_to_pipe, pkgs_installed, pkgs_selected, pkgs, resp, kernels,
                   selected_kernels, kernel, k, invoked>>
    /\ UNCHANGED mainVars
    /\ UNCHANGED keyVars

\* execute_cmd("sudo", args)? followed by the final `Ok(())`.
ExecuteCmd(here, args) ==
    /\ epc = here
    /\ \E o \in ExecOutcomes :
        /\ invoked' = Append(invoked, Invocation("sudo", args, <<>>, o))
        /\ Return(Question(execute_cmd(o)))
    /\ UNCHANGED <<command, lhs_to_pipe, pkgs_installed, pkgs_selected, pkgs, resp, kernels,
                   selected_kernels, kernel, line, k>>
    /\ UNCHANGED mainVars
    /\ UNCHANGED keyVars

\* RemovePackage with a name: "Enter package name to remove:".
RpRead == ReadLine("rp_read", "rp_exec")

\* RemovePackage with a name: the name removed is the line just read.
RpExec == ExecuteCmd("rp_exec", <<Tok("dnf"), Tok("remove"), Trim(line)>>)

\* Variant of CpcExec that runs the command of the next match arm.
CpcExecAutoremove == ExecuteCmd("cpc_exec", <<Tok("dnf"), Tok("autoremove")>>)

\* CleanPackageCache
CpcExec == ExecuteCmd("cpc_exec", <<Tok("dnf"), Tok("clean"), Tok("all")>>)

\* UninstallUnusedApps
UuaExec == ExecuteCmd("uua_exec", <<Tok("dnf"), Tok("autoremove")>>)

\* CleanUpLogFiles: "Enter vacuum time (Default: 7) as days:".
CulfRead == ReadLine("culf_read", "culf_exec")

\* CleanUpLogFiles: journalctl with the vacuum flag.
CulfExec == ExecuteCmd("culf_exec", <<Tok("journalctl"), vacuum_time(line)>>)

\* RemoveOldKernels: `rpm -q kernel`; the exit status is not looked at.
RokList ==
    /\ epc = "rok_list"
    /\ \E o \in RpmOutcomes :
        /\ invoked' = Append(invoked, Invocation("rpm", <<Tok("-q"), Tok("kernel")>>, <<>>, o))
        /\ IF ~o.spawned
           THEN Return(Err("SpawnFailed")) /\ kernels' = kernels
           ELSE epc' = "rok_select" /\ kernels' = MenuOf(o.stdout) /\ result' = result
    /\ UNCHANGED <<command, lhs_to_pipe, pkgs_installed, pkgs_selected, pkgs, resp,
                   selected_kernels, kernel, line, k>>
    /\ UNCHANGED mainVars
    /\ UNCHANGED keyVars

\* RemoveOldKernels: the kernel prompt. An Err in kernels skips the
\* `if let Ok(kernel)` block and execute ends with the final `Ok(())`.
RokSelect ==
    /\ epc = "rok_select"
    /\ \/ /\ Return(Err("InteractionError"))
          /\ UNCHANGED <<selected_kernels, kernel>>
       \/ \E boxes \in [1..Len(kernels) -> BOOLEAN] :
            /\ selected_kernels' = SelectNames(kernels, boxes)
            /\ kernel' = KernelsResult(selected_kernels')
            /\ IF kernel'.ok
               THEN epc' = "rok_xsel" /\ result' = result
               ELSE Return(Ok(<<>>))
    /\ UNCHANGED <<command, lhs_to_pipe, pkgs_installed, pkgs_selected, pkgs, resp, kernels,
                   line, k, invoked>>
    /\ UNCHANGED mainVars
    /\ UNCHANGED keyVars

\* RemoveOldKernels: the removal command is written to the stdin of `xsel -ib`.
RokXsel ==
    /\ epc = "rok_xsel"
    /\ \E o \in PipedOutcomes :
        /\ invoked' = Append(invoked, Invocation("xsel", <<Tok("-ib")>>, the_string(kernel.val), o))
        /\ IF ~o.spawned
           THEN Return(Err("SpawnFailed"))
           ELSE IF o = WaitFailed
           THEN Return(Err("IoError"))
           ELSE Return(Ok(<<>>))
    /\ UNCHANGED <<command, lhs_to_pipe, pkgs_installed, pkgs_selected, pkgs, resp, kernels,
                   selected_kernels, kernel, line, k>>
    /\ UNCHANGED mainVars
    /\ UNCHANGED keyVars

----------------------------------------------------------------------------
(* The program. *)

Next ==
    \/ CliParse
    \/ CliParseFail
    \/ \E i \in 1..Len(get_commands) : MenuToggle(i)
    \/ MenuConfirm
    \/ MenuFail
    \/ MainDirect
    \/ MainDirectReturn
    \/ LoopCall
    \/ LoopSkip
    \/ LoopReturn
    \/ LoopEnd
    \/ RpList
    \/ RpAwk
    \/ RpSelect
    \/ RpConfirm
    \/ RpRemove
    \/ RpRead
    \/ RpExec
    \/ CpcExec
    \/ UuaExec
    \/ CulfRead
    \/ CulfExec
    \/ RokList
    \/ RokSelect
    \/ RokXsel

Spec == Init /\ [][Next]_vars

----------------------------------------------------------------------------
(* from_selection on its own: every key of a range is handed to it. *)

KeyInputs == (0 - MinusKeys)..MaxKey

InitKeys ==
    /\ pc = "keys"
    /\ MainInit
    /\ FrameInit
    /\ key \in KeyInputs
    /\ mapped = Unmapped
    /\ output = NoSpawn

\* `Commands::from_selection(selection.key as usize)`
ApplyFromSelection ==
    /\ pc = "keys"
    /\ mapped = Unmapped
    /\ mapped' = from_selection(AsUsize(key))
    /\ pc' = "mapped"
    /\ UNCHANGED <<key, output>>
    /\ UNCHANGED <<cli_command, checked, toggles, selections, idx, ret, printed, executed>>
    /\ UNCHANGED frameVars

NextKeys == ApplyFromSelection

SpecKeys == InitKeys /\ [][NextKeys]_vars

----------------------------------------------------------------------------
(* execute_cmd on its own: one call for every outcome of the child. *)

\* Texts a child may leave on stdout or stderr.
RunTexts ==
    { <<>>, <<"h", "e", "l", "l", "o", " ", "w", "o", "r", "l", "d", "\n">>,
      <<" ", "n", "o", " ", "\n">>, <<"\n", "\n">>, <<"x">>, <<"\t", "a", " ", "b">> }

\* Exit statuses of a child.
RunCodes == {0, 1, 2}

RunOutputs ==
    { Outcome(TRUE, c, out, errt) : c \in RunCodes, out \in RunTexts, errt \in RunTexts }
    \cup { NoSpawn }

\* The command lines handed to execute_cmd.
RunCommands ==
    { [cmd |-> "echo", args |-> <<Tok("hello"), Tok("world")>>],
      [cmd |-> "git", args |-> <<Tok("status")>>] }

InitRun ==
    /\ pc = "run"
    /\ MainInit
    /\ FrameInit
    /\ key = 0
    /\ mapped = Unmapped
    /\ output \in RunOutputs

\* One call of execute_cmd(cmd, args): `Command::new(cmd).args(args).output()`
\* once, then the Result built from the Output.
RunExecuteCmd ==
    /\ pc = "run"
    /\ \E c \in RunCommands :
        invoked' = Append(invoked, Invocation(c.cmd, c.args, <<>>, output))
    /\ result' = execute_cmd(output)
    /\ pc' = "ran"
    /\ UNCHANGED <<cli_command, checked, toggles, selections, idx, ret, printed, executed>>
    /\ UNCHANGED <<command, epc, lhs_to_pipe, pkgs_installed, pkgs_selected, pkgs, resp,
                   kernels, selected_kernels, kernel, line, k>>
    /\ UNCHANGED keyVars

NextRun == RunExecuteCmd

SpecRun == InitRun /\ [][NextRun]_vars

----------------------------------------------------------------------------
(* Properties. *)

Interactive == cli_command = None /\ pc \in {"loop", "loop_exec", "done"}
NoName == command = RemovePackage(<<>>)
Named == command.variant = "RemovePackage" /\ command.package_name # <<>>

\* Position of an item in the registry.
RegistryIndex(item) == CHOOSE i \in 1..Len(get_commands) : get_commands[i] = item

\* The children started on behalf of a selected package (through sudo).
PerPackage(inv) == SelectSeq(inv, LAMBDA e : e.cmd = "sudo")

\* The error kinds of the failed entries of a history, in order.
ErrorsOf(hist) ==
    LET failed == SelectSeq(hist, LAMBDA e : ~e.result.ok)
    IN  [j \in 1..Len(failed) |-> failed[j].result.err]

\* C1: in interactive mode, when main has returned from the loop, every
\* selected item with a key in 1..5 has exactly one finished execution of its
\* action, nothing else was executed, and every error of an action was printed
\* while the later selections were still processed.
C1_EachSelectedActionRunsOnce ==
    (cli_command = None /\ pc = "done" /\ ret.ok) =>
        /\ \A i \in 1..Len(selections) :
              selections[i].key \in 1..5 =>
                  Cardinality({j \in 1..Len(executed) :
                      /\ executed[j].at = i
                      /\ executed[j].command = from_selection(selections[i].key)}) = 1
        /\ Len(executed) = Cardinality({i \in 1..Len(selections) : selections[i].key \in 1..5})
        /\ printed = ErrorsOf(executed)

\* C1 witness: the first of two selected actions failed and the second one
\* was executed all the same.
C1_Witness ==
    /\ cli_command = None /\ pc = "done" /\ ret.ok
    /\ Len(executed) = 2
    /\ ~executed[1].result.ok
    /\ Len(printed) >= 1

\* C2: the menu returns a duplicate-free subsequence of the registry in
\* registry order, and the actions are executed in that order.
C2_RegistryOrder ==
    Interactive =>
        /\ \A i \in 1..Len(selections) : \E r \in 1..Len(get_commands) : selections[i] = get_commands[r]
        /\ \A i, j \in 1..Len(selections) :
              i < j => RegistryIndex(selections[i]) < RegistryIndex(selections[j])
        /\ \A a, b \in 1..Len(executed) :
              a < b => RegistryIndex(selections[executed[a].at]) < RegistryIndex(selections[executed[b].at])
        /\ \A a \in 1..Len(executed) :
              executed[a].command = from_selection(selections[executed[a].at].key)

\* C2 witness: item 3 was toggled before item 1, and item 1's action ran first.
C2_Witness ==
    /\ toggles = <<3, 1>>
    /\ Len(executed) = 2
    /\ executed[1].command = RemovePackage(<<>>)
    /\ executed[2].command = UninstallUnusedApps

\* The confirmation line has been read in a RemovePackage without a name.
Answered == NoName /\ pkgs.ok /\ epc = "returned" /\ result.err # "IoError"

\* C3 as stated: every response other than "y" ends the action with the
\* Aborted error and without a child started for a selected package.
C3_Original ==
    (Answered /\ Trim(resp) # Tok("y")) =>
        /\ result = Err("Aborted")
        /\ PerPackage(invoked) = <<>>

\* C3 amended: no child is started for a selected package unless the trimmed
\* confirmation line is "y"; the trimmed line "n" ends the action with the
\* Aborted error, every other line with the invalid-response error, both
\* different from the no-selection error.
C3_NoRemovalWithoutYes ==
    /\ (NoName /\ (epc \in {"rp_list", "rp_awk", "rp_select", "rp_confirm"} \/ Trim(resp) # Tok("y")))
          => PerPackage(invoked) = <<>>
    /\ (Answered /\ Trim(resp) = Tok("n")) => result = Err("Aborted")
    /\ (Answered /\ Trim(resp) # Tok("y") /\ Trim(resp) # Tok("n")) => result = Err("InvalidResponse")
    /\ (Answered /\ Trim(resp) # Tok("y")) => (~result.ok /\ result # Err("NoSelection"))

\* C3 witness: packages were chosen and the user answered "n".
C3_Witness ==
    /\ Answered
    /\ resp = <<"n", "\n">>
    /\ result = Err("Aborted")
    /\ Len(pkgs.val) >= 1

\* C4 as stated: after "y", `sudo dnf remove <name>` is started exactly once
\* for each selected package, in selection order, and for nothing else.
C4_RemoveOncePerPackage ==
    (Answered /\ Trim(resp) = Tok("y") /\ result.ok) =>
        /\ Len(PerPackage(invoked)) = Len(pkgs_selected)
        /\ \A i \in 1..Len(PerPackage(invoked)) :
              PerPackage(invoked)[i].args = <<Tok("dnf"), Tok("remove"), pkgs_selected[i]>>

\* C5 as stated: with a name given, no listing is made and the one removal
\* names the given package, trimmed, whatever is typed at the prompt.
C5_RemovesGivenName ==
    (Named /\ epc = "returned" /\ result.ok) =>
        /\ Len(invoked) = 1
        /\ invoked[1].cmd = "sudo"
        /\ invoked[1].args = <<Tok("dnf"), Tok("remove"), Trim(command.package_name)>>

\* C6 as stated: RemoveOldKernels with an empty or sentinel-only selection
\* returns the no-selection error and starts neither a removal nor xsel.
C6_KernelsNoSelection ==
    (command = RemoveOldKernels /\ epc = "returned" /\ kernel # Pending
        /\ (selected_kernels = <<>> \/ selected_kernels = <<SentinelNone>>)) =>
        /\ result = Err("NoSelection")
        /\ \A i \in 1..Len(invoked) : invoked[i].cmd \notin {"xsel", "sudo"}

\* C7 as stated: RemovePackage without a name returns the no-selection error
\* exactly when the selection is empty or is just the sentinel; every other
\* selection reaches the confirmation.
C7_NoSelectionExactly ==
    (NoName /\ pkgs # Pending /\ epc \in {"rp_confirm", "returned"}) =>
        IF pkgs_selected = <<>> \/ pkgs_selected = <<SentinelNone>>
        THEN epc = "returned" /\ result = Err("NoSelection")
        ELSE pkgs.ok

\* C8 as stated: a child that exits with a non-zero status makes execute
\* return an error.
C8_ToolFailureIsError ==
    (epc = "returned" /\ \E i \in 1..Len(invoked) : invoked[i].spawned /\ invoked[i].code > 0)
        => ~result.ok

\* C9 as stated: an error returned by execute never makes main return an error.
C9_Original ==
    (pc = "done" /\ \E j \in 1..Len(executed) : ~executed[j].result.ok) => ret.ok

\* C9 amended: in interactive mode an error returned by execute never makes
\* main return an error, and main fails only when the menu prompt fails; with
\* a command given on the command line main returns exactly what that
\* command's execute returned.
C9_TopLevelResult ==
    /\ (pc = "done" /\ cli_command = None) =>
          (ret.ok \/ (ret = Err("InteractionError") /\ executed = <<>> /\ selections = <<>>))
    /\ (pc = "done" /\ cli_command # None) =>
          /\ Len(executed) = 1
          /\ executed[1].command = cli_command
          /\ ret.ok = executed[1].result.ok
          /\ ~ret.ok => ret = executed[1].result

\* C9 witness: in interactive mode an action failed and main returned Ok.
C9_Witness ==
    /\ pc = "done" /\ cli_command = None
    /\ \E j \in 1..Len(executed) : ~executed[j].result.ok
    /\ ret.ok

\* The table of the key-to-action mapping, written out.
KeyTable(i) ==
    IF i = 1 THEN RemovePackage(<<>>)
    ELSE IF i = 2 THEN CleanPackageCache
    ELSE IF i = 3 THEN UninstallUnusedApps
    ELSE IF i = 4 THEN RemoveOldKernels
    ELSE IF i = 5 THEN CleanUpLogFiles
    ELSE None

Actions == {RemovePackage(<<>>), CleanPackageCache, UninstallUnusedApps, RemoveOldKernels, CleanUpLogFiles}

\* C10: keys 1..5 map to the five actions in order, each action is the image
\* of exactly one key, and key 0 and every other key map to no action; the
\* menu's own keys are the five action keys and the 0 of "Exit".
C10_KeyToAction ==
    /\ pc = "mapped" => mapped = KeyTable(key)
    /\ pc = "mapped" => (mapped # None <=> key \in 1..5)
    /\ \A a \in Actions :
          Cardinality({i \in KeyInputs : from_selection(AsUsize(i)) = a}) = 1
    /\ {get_commands[i].key : i \in 1..Len(get_commands)} = 0..5

\* C10 witness: key 99 was mapped, to no action.
C10_Witness == pc = "mapped" /\ key = 99 /\ mapped = None

\* The number of days each typed line stands for, written out: the lines
\* that hold a number give that number, every other line gives 7.
ExpectedDays(typed) ==
    IF typed = <<" ", "3", "0", " ", "\n">> THEN <<"3", "0">>
    ELSE IF typed \in { <<"7", "\n">>, <<"+", "7", "\n">>, <<"0", "0", "7", "\n">> } THEN <<"7">>
    ELSE <<"7">>

\* The typed lines that are not an unsigned 32-bit number.
Unparseable ==
    TypedLines \ { <<" ", "3", "0", " ", "\n">>, <<"7", "\n">>, <<"+", "7", "\n">>, <<"0", "0", "7", "\n">> }

\* C11: CleanUpLogFiles starts exactly one child, `sudo journalctl
\* --vacuum-time=<N>d`, where N is the number on the trimmed line; for a line
\* that is not a number N is 7, as for the line "7", and the action fails only
\* when that child fails.
C11_VacuumFlag ==
    /\ (command = CleanUpLogFiles /\ epc \in {"culf_read", "culf_exec"}) => invoked = <<>>
    /\ (command = CleanUpLogFiles /\ epc = "returned" /\ result.err # "IoError") =>
          /\ Len(invoked) = 1
          /\ invoked[1].cmd = "sudo"
          /\ invoked[1].args = <<Tok("journalctl"), <<"--vacuum-time=">> \o ExpectedDays(line) \o <<"d">> >>
          /\ line \in Unparseable => invoked[1].args = <<Tok("journalctl"), <<"--vacuum-time=", "7", "d">> >>
          /\ result.ok <=> (invoked[1].spawned /\ invoked[1].code = 0)

\* C11 witness: the user typed "abc", journalctl ran with 7 days and the
\* action succeeded.
C11_Witness ==
    /\ command = CleanUpLogFiles /\ epc = "returned"
    /\ line = <<"a", "b", "c", "\n">>
    /\ Len(invoked) = 1
    /\ invoked[1].args = <<Tok("journalctl"), <<"--vacuum-time=", "7", "d">> >>
    /\ result.ok

\* The entries of the top-level menu that are checked.
CheckedKeys == {get_commands[i].key : i \in {j \in 1..Len(checked) : checked[j]}}

\* C12: the top-level menu opens with exactly its last entry, "Exit" with key
\* 0, checked; when the user confirms without toggling, nothing is executed,
\* no child process is started and main returns Ok.
C12_ExitPreChecked ==
    /\ (pc = "menu" /\ toggles = <<>>) =>
          /\ \A i \in 1..Len(get_commands) : checked[i] <=> i = Len(get_commands)
          /\ get_commands[Len(get_commands)] = SelectableItem(0, "Exit")
          /\ CheckedKeys = {0}
    /\ (cli_command = None /\ idx >= 1 /\ toggles = <<>>) =>
          /\ selections = <<SelectableItem(0, "Exit")>>
          /\ executed = <<>>
          /\ invoked = <<>>
          /\ epc = "idle"
          /\ pc = "done" => ret = Ok(<<>>)

\* C12 witness: the user confirmed at once and main has returned Ok.
C12_Witness ==
    /\ cli_command = None /\ pc = "done" /\ idx >= 1
    /\ toggles = <<>>
    /\ ret = Ok(<<>>)
    /\ executed = <<>>

\* t is s without its leading and trailing white space.
IsTrimOf(t, s) ==
    /\ t # <<>> => (t[1] \notin WS /\ t[Len(t)] \notin WS)
    /\ \E a \in 0..Len(s) :
          /\ a + Len(t) <= Len(s)
          /\ \A i \in 1..a : s[i] \in WS
          /\ \A i \in 1..Len(t) : s[a + i] = t[i]
          /\ \A i \in (a + Len(t) + 1)..Len(s) : s[i] \in WS

\* C13: a call of execute_cmd starts the child once; exit status zero gives
\* Ok with the trimmed stdout ("hello world" for echo hello world), a non-zero
\* status gives the command-failed error with that status and the trimmed
\* stderr, a child that cannot be started gives the spawn error.
C13_RunnerResult ==
    pc = "ran" =>
        /\ Len(invoked) = 1
        /\ invoked[1].spawned = output.spawned
        /\ (output.spawned /\ output.code = 0) =>
              /\ result.ok
              /\ IsTrimOf(result.val, output.stdout)
        /\ (output.spawned /\ output.code # 0) =>
              /\ ~result.ok
              /\ result.err = "CommandFailed"
              /\ result.code = output.code
              /\ IsTrimOf(result.msg, output.stderr)
        /\ ~output.spawned => result = Err("SpawnFailed")
        /\ (output.spawned /\ output.code = 0
              /\ output.stdout = <<"h", "e", "l", "l", "o", " ", "w", "o", "r", "l", "d", "\n">>) =>
              result.val = <<"h", "e", "l", "l", "o", " ", "w", "o", "r", "l", "d">>

\* C13 witness: echo hello world exited with status 0 and the call returned
\* "hello world".
C13_Witness ==
    /\ pc = "ran"
    /\ invoked[1].cmd = "echo"
    /\ output.spawned /\ output.code = 0
    /\ output.stdout = <<"h", "e", "l", "l", "o", " ", "w", "o", "r", "l", "d", "\n">>
    /\ result = Ok(<<"h", "e", "l", "l", "o", " ", "w", "o", "r", "l", "d">>)

\* The one child of CleanPackageCache.
IsCleanAll(inv) ==
    /\ Len(inv) = 1
    /\ inv[1].cmd = "sudo"
    /\ inv[1].args = <<Tok("dnf"), Tok("clean"), Tok("all")>>
    /\ inv[1].stdin = <<>>

\* C14: every execution of CleanPackageCache starts exactly one child, `sudo
\* dnf clean all`, and asks nothing, whatever ran before it in the same run
\* and however that ended.
C14_CleanAllOnce ==
    /\ \A j \in 1..Len(executed) :
          executed[j].command = CleanPackageCache => IsCleanAll(executed[j].invoked)
    /\ command = CleanPackageCache =>
          /\ epc \in {"cpc_exec", "returned", "idle"}
          /\ epc = "cpc_exec" => invoked = <<>>
          /\ epc # "cpc_exec" => IsCleanAll(invoked)
          /\ line = <<>> /\ resp = <<>>
          /\ pkgs_installed = <<>> /\ kernels = <<>>

\* C14 witness: RemovePackage failed first, then CleanPackageCache ran its
\* one command.
C14_Witness ==
    /\ Len(executed) = 2
    /\ executed[1].command = RemovePackage(<<>>) /\ ~executed[1].result.ok
    /\ executed[2].command = CleanPackageCache
    /\ IsCleanAll(executed[2].invoked)

\* C15: when the user confirms the top-level menu with every entry unchecked,
\* the prompt returns the empty list, nothing is executed and main returns
\* Ok; a failure of the prompt is the only case where main, without a
\* command, returns an error, and no confirmation has happened then.
C15_EmptySelectionIsOk ==
    /\ (cli_command = None /\ idx >= 1 /\ \A i \in 1..Len(checked) : ~checked[i]) =>
          /\ selections = <<>>
          /\ executed = <<>>
          /\ invoked = <<>>
          /\ epc = "idle"
          /\ pc \in {"loop", "done"}
          /\ pc = "done" => ret = Ok(<<>>)
    /\ (cli_command = None /\ pc = "done" /\ ~ret.ok) =>
          (ret = Err("InteractionError") /\ idx = 0 /\ executed = <<>>)

\* C15 witness: the user unchecked "Exit", confirmed, and main returned Ok
\* with nothing executed.
C15_Witness ==
    /\ cli_command = None /\ pc = "done" /\ idx >= 1
    /\ toggles = <<Len(get_commands)>>
    /\ selections = <<>>
    /\ executed = <<>>
    /\ ret = Ok(<<>>)

\* With a command on the command line the menu is never opened and the one
\* call of execute is for that command; without one no call of execute
\* starts before the menu has been confirmed.
OneActionOrPromptFirst ==
    /\ cli_command # None =>
          /\ pc \in {"match", "direct", "done"}
          /\ checked = <<>> /\ toggles = <<>> /\ selections = <<>> /\ idx = 0
          /\ command \in {None, cli_command}
          /\ Len(executed) <= 1
          /\ pc = "done" =>
                /\ Len(executed) = 1
                /\ executed[1].command = cli_command
                /\ executed[1].at = 0
          /\ pc # "done" => executed = <<>>
    /\ (cli_command = None /\ (executed # <<>> \/ epc # "idle" \/ command # None)) =>
          /\ idx >= 1
          /\ pc \in {"loop", "loop_exec", "done"}

\* The menu is opened from the parsed arguments only, and neither the parsing
\* nor a left menu is ever entered again.
PromptOpenedOnce ==
    /\ (pc' = "menu" /\ pc # "menu") => pc = "parse"
    /\ pc' = "parse" => pc = "parse"

\* C16: started with a command, the program never shows the menu and
\* executes exactly that command, once; started without one, it runs the menu
\* prompt exactly once, before any action is executed.
C16_OneActionOrOnePrompt == []OneActionOrPromptFirst /\ [][PromptOpenedOnce]_vars

\* C16 witness: the program was started with clean-package-cache and has
\* executed it, once, without a menu.
C16_Witness ==
    /\ cli_command = CleanPackageCache /\ pc = "done"
    /\ Len(executed) = 1
    /\ executed[1].command = CleanPackageCache
    /\ toggles = <<>> /\ checked = <<>>

\* Every name of a list preceded by one space.
RECURSIVE SpacePrefixed(_)
SpacePrefixed(names) ==
    IF names = <<>> THEN <<>>
    ELSE <<" ">> \o Head(names) \o SpacePrefixed(Tail(names))

\* The text to be staged for a list of kernels.
ExpectedStaged(names) == <<"sudo", " ", "dnf", " ", "remove">> \o SpacePrefixed(names)

\* Position of a name in the kernel menu.
KernelIndex(name) == CHOOSE i \in 1..Len(kernels) : kernels[i] = name

\* C17: RemoveOldKernels with a non-empty selection without the sentinel
\* starts no removal itself; the only child after the listing is `xsel -ib`,
\* whose stdin is `sudo dnf remove` followed by the chosen kernels in menu
\* order, separated by single spaces.
C17_StagesRemoval ==
    (command = RemoveOldKernels /\ kernel.ok) =>
        /\ selected_kernels # <<>>
        /\ ~Contains(selected_kernels, SentinelNone)
        /\ \A i, j \in 1..Len(selected_kernels) :
              i < j => KernelIndex(selected_kernels[i]) < KernelIndex(selected_kernels[j])
        /\ \A i \in 1..Len(invoked) : invoked[i].cmd \in {"rpm", "xsel"}
        /\ epc = "rok_xsel" => Len(invoked) = 1
        /\ epc # "rok_xsel" =>
              /\ Len(invoked) = 2
              /\ invoked[2].cmd = "xsel"
              /\ invoked[2].args = <<Tok("-ib")>>
              /\ invoked[2].stdin = ExpectedStaged(selected_kernels)
              /\ result.ok <=> (invoked[2].spawned /\ invoked[2].code # -1)

\* C17 witness: kernels k and m were chosen and `sudo dnf remove k m` went to
\* the stdin of xsel.
C17_Witness ==
    /\ command = RemoveOldKernels /\ epc = "returned"
    /\ selected_kernels = << <<"k">>, <<"m">> >>
    /\ Len(invoked) = 2
    /\ invoked[2].cmd = "xsel" /\ invoked[2].spawned
    /\ invoked[2].stdin = <<"sudo", " ", "dnf", " ", "remove", " ", "k", " ", "m">>
    /\ result.ok

====
